---- MODULE Spec2Model ----
(***************************************************************************)
(* LearnMate chat relay: the Express server (server.js: /api/chat,         *)
(* /api/chat-v2, /api/chat-v3) and the two serverless handlers             *)
(* (api/chat.js as an ES module and as a CommonJS module).                 *)
(*                                                                         *)
(* Every inbound request is one process.  A handler runs to completion     *)
(* between awaits, so each action below is one synchronous segment of a    *)
(* handler: from its entry to the first await, and from the settling of an *)
(* awaited axios call to the next await or to the end of the handler.      *)
(*                                                                         *)
(* Text is a sequence of tokens: the literals "Human:" and "Assistant:",   *)
(* the white-space characters " " and "\n", and opaque words.              *)
(***************************************************************************)
EXTENDS Integers, Sequences, FiniteSets, TLC

\* ------------------------------------------------------------------------
\* Bounds
\* ------------------------------------------------------------------------
NumReqs == 1

\* the requests of the specification of concurrent requests
MaxTwins == 2

\* the sendMessage calls of the page that send a request
MaxSends == 2

Reqs == 1..NumReqs

Twins == 1..MaxTwins

Calls == 1..MaxSends

\* ------------------------------------------------------------------------
\* JavaScript values
\* ------------------------------------------------------------------------
Undef == [t |-> "undefined"]

Null == [t |-> "null"]

Str(s) == [t |-> "string", s |-> s]

Num(n) == [t |-> "number", n |-> n]

Obj(o) == [t |-> "object", o |-> o]

Arr(a) == [t |-> "array", a |-> a]

EmptyRec == [k \in {} |-> Undef]

\* ToBoolean: undefined, null, "" and 0 are falsy
Truthy(v) ==
    CASE v.t = "undefined" -> FALSE
      [] v.t = "null" -> FALSE
      [] v.t = "string" -> v.s # <<>>
      [] v.t = "number" -> v.n # 0
      [] OTHER -> TRUE

\* v.k throws a TypeError when v is undefined or null
Throws(v) == v.t \in {"undefined", "null"}

\* v.k for a v that is neither undefined nor null
Get(v, k) ==
    IF v.t = "object" /\ k \in DOMAIN v.o THEN v.o[k] ELSE Undef

\* v[0] for a v that is neither undefined nor null
First(v) ==
    CASE v.t = "array" /\ Len(v.a) > 0 -> v.a[1]
      [] v.t = "string" /\ Len(v.s) > 0 -> Str(<<v.s[1]>>)
      [] OTHER -> Undef

\* v.length > 0 (undefined > 0 is false)
HasLength(v) ==
    CASE v.t = "array" -> Len(v.a) > 0
      [] v.t = "string" -> Len(v.s) > 0
      [] OTHER -> FALSE

\* ------------------------------------------------------------------------
\* Text
\* ------------------------------------------------------------------------
IsSpace(c) == c \in {" ", "\n"}

\* the characters the regular expression's "." does not match
IsLineBreak(c) == c = "\n"

RECURSIVE DropSpace(_)
DropSpace(s) ==
    IF s # <<>> /\ IsSpace(Head(s)) THEN DropSpace(Tail(s)) ELSE s

RECURSIVE DropSpaceEnd(_)
DropSpaceEnd(s) ==
    IF s # <<>> /\ IsSpace(s[Len(s)])
    THEN DropSpaceEnd(SubSeq(s, 1, Len(s) - 1))
    ELSE s

\* String.prototype.trim
Trim(s) == DropSpaceEnd(DropSpace(s))

\* the index of "Assistant:" that /^Human:.*?Assistant:/ ends its match at, or 0
\* when the pattern does not match: the text starts with "Human:", and the
\* lazy ".*?" runs over no line break up to the first "Assistant:"
PromptEnd(s) ==
    IF s = <<>> \/ Head(s) # "Human:"
    THEN 0
    ELSE LET ends == {j \in 2..Len(s) :
                        /\ s[j] = "Assistant:"
                        /\ \A k \in 2..(j - 1) : ~IsLineBreak(s[k])}
         IN IF ends = {} THEN 0
            ELSE CHOOSE j \in ends : \A i \in ends : j <= i

\* responseText.replace(/^Human:.*?Assistant:\s*/, '')
StripPrompt(s) ==
    IF PromptEnd(s) = 0 THEN s
    ELSE DropSpace(SubSeq(s, PromptEnd(s) + 1, Len(s)))

\* ------------------------------------------------------------------------
\* Static configuration and routes
\* ------------------------------------------------------------------------
IAM_TIMEOUT == 15000

CHAT_TIMEOUT == 45000

ALT_TIMEOUT == 30000

\* axios' default: no timeout
NO_TIMEOUT == 0

ExpressRoutes == {"/api/chat", "/api/chat-v2", "/api/chat-v3"}

ServerlessRoutes == {"serverless-esm", "serverless-cjs"}

Routes == ExpressRoutes \cup ServerlessRoutes

Methods == {"POST", "GET", "OPTIONS"}

\* the timeout option of the identity call: getIAMToken sets one, the
\* serverless handlers call axios.post without one
IdentityTimeout(route) ==
    IF route \in ExpressRoutes THEN IAM_TIMEOUT ELSE NO_TIMEOUT

\* the timeout option of the inference call
InferenceTimeout(route) ==
    CASE route = "/api/chat" -> CHAT_TIMEOUT
      [] route \in {"/api/chat-v2", "/api/chat-v3"} -> ALT_TIMEOUT
      [] OTHER -> NO_TIMEOUT

\* ------------------------------------------------------------------------
\* Responses
\* ------------------------------------------------------------------------
Response(status, body) == [status |-> status, body |-> body]

ErrorBody(text) == Obj([error |-> Str(<<text>>)])

MethodNotAllowed == Response(405, ErrorBody("Method Not Allowed"))

EmptyMessage == Response(400, ErrorBody("Message cannot be empty."))

ApiKeyMissing ==
    Response(500, ErrorBody("Server configuration error: API key missing"))

ProjectIdMissing ==
    Response(500, ErrorBody("Server configuration error: Project ID missing. Please add PROJECT_ID to your .env file"))

\* formattedResponse, sent by res.json with the default status
Envelope(content) ==
    Response(200,
        Obj([choices |-> Arr(<<Obj([index |-> Num(0),
                                    message |-> Obj([content |-> content,
                                                     role |-> Str(<<"assistant">>)])])>>)]))

ChatFallback ==
    Str(<<"I'm sorry, I couldn't generate a response. Please try again.">>)

AltFallback == Str(<<"I'm having trouble generating a response.">>)

\* ------------------------------------------------------------------------
\* Errors
\* ------------------------------------------------------------------------
\* the error an axios call rejects with, by the call's outcome
AxiosError(o) ==
    CASE o.kind = "http" ->
            [response |-> Obj([status |-> Num(o.status), data |-> o.data]),
             request |-> Obj(EmptyRec),
             message |-> Str(<<"Request failed with status code">>)]
      [] o.kind = "noresponse" ->
            [response |-> Undef, request |-> Obj(EmptyRec),
             message |-> Str(<<"Network Error">>)]
      [] o.kind = "silent" ->
            [response |-> Undef, request |-> Obj(EmptyRec),
             message |-> Str(<<"timeout exceeded">>)]
      [] OTHER ->
            [response |-> Undef, request |-> Undef,
             message |-> Str(<<"Invalid URL">>)]

\* a TypeError thrown by the handler's own code
TypeError ==
    [response |-> Undef, request |-> Undef,
     message |-> Str(<<"Cannot read properties">>)]

\* ChatCatch without its "else if (error.request)" branch
ChatCatchNoRequestBranch(error) ==
    IF Truthy(error.response)
    THEN Response(Get(error.response, "status").n,
                  Obj([error |-> Str(<<"Failed to get response from AI">>),
                       details |-> Get(error.response, "data"),
                       status |-> Get(error.response, "status")]))
    ELSE Response(500,
                  Obj([error |-> Str(<<"Failed to set up request to AI service">>),
                       details |-> error.message]))

\* the catch block of app.post('/api/chat')
ChatCatch(error) ==
    IF Truthy(error.response)
    THEN Response(Get(error.response, "status").n,
                  Obj([error |-> Str(<<"Failed to get response from AI">>),
                       details |-> Get(error.response, "data"),
                       status |-> Get(error.response, "status")]))
    ELSE IF Truthy(error.request)
    THEN Response(500,
                  Obj([error |-> Str(<<"Connection timeout - unable to reach IBM Watsonx.ai service">>),
                       suggestion |-> Str(<<"Please check your internet connection and try again">>)]))
    ELSE Response(500,
                  Obj([error |-> Str(<<"Failed to set up request to AI service">>),
                       details |-> error.message]))

\* error.response?.data || error.message
AltDetails(error) ==
    IF Truthy(error.response) /\ Truthy(Get(error.response, "data"))
    THEN Get(error.response, "data")
    ELSE error.message

\* the catch blocks of app.post('/api/chat-v2') and app.post('/api/chat-v3')
AltCatch(route, error) ==
    Response(500,
             Obj([error |-> IF route = "/api/chat-v2"
                            THEN Str(<<"Both primary and alternative endpoints failed">>)
                            ELSE Str(<<"All endpoints failed">>),
                  details |-> AltDetails(error)]))

\* the catch block of the serverless handlers
ServerlessCatch(error) ==
    Response(500, ErrorBody("An internal server error occurred."))

Catch(route, error) ==
    CASE route = "/api/chat" -> ChatCatch(error)
      [] route \in {"/api/chat-v2", "/api/chat-v3"} -> AltCatch(route, error)
      [] OTHER -> ServerlessCatch(error)

\* ------------------------------------------------------------------------
\* Validation: the responses a handler sends before its first await, and
\* whether it goes on to the identity call
\* ------------------------------------------------------------------------
Reject(response) == [sends |-> <<response>>, proceed |-> FALSE]

Proceed == [sends |-> <<>>, proceed |-> TRUE]

\* ChatValidate without the "return" of its first rejection
ChatValidateNoReturn(msg, key, pid) ==
    IF ~Truthy(msg) THEN [sends |-> <<EmptyMessage>>, proceed |-> TRUE]
    ELSE IF ~Truthy(key) THEN Reject(ApiKeyMissing)
    ELSE IF ~Truthy(pid) THEN Reject(ProjectIdMissing)
    ELSE Proceed

\* app.post('/api/chat'): message, then API key, then project id
ChatValidate(msg, key, pid) ==
    IF ~Truthy(msg) THEN Reject(EmptyMessage)
    ELSE IF ~Truthy(key) THEN Reject(ApiKeyMissing)
    ELSE IF ~Truthy(pid) THEN Reject(ProjectIdMissing)
    ELSE Proceed

\* app.post('/api/chat-v2'), app.post('/api/chat-v3'): no check at all
AltValidate(msg, key, pid) == Proceed

\* the serverless handlers: method, then message
ServerlessValidate(meth, msg) ==
    IF meth # "POST" THEN Reject(MethodNotAllowed)
    ELSE IF ~Truthy(msg) THEN Reject(EmptyMessage)
    ELSE Proceed

\* a request no app.post route matches reaches the CORS middleware, and from
\* its next() the end of the stack, where Express answers 404
CorsMiddleware(meth) ==
    IF meth = "OPTIONS"
    THEN Response(200, Str(<<"OK">>))
    ELSE Response(404, Str(<<"Cannot", " ", meth>>))

\* ------------------------------------------------------------------------
\* The token and the normalisation
\* ------------------------------------------------------------------------
Threw(error) == [threw |-> TRUE, error |-> error]

\* tokenResponse.data.access_token, or the error the identity call rejects
\* with (getIAMToken rethrows it)
TokenOf(o) ==
    IF o.kind # "ok" THEN Threw(AxiosError(o))
    ELSE IF Throws(o.data) THEN Threw(TypeError)
    ELSE [threw |-> FALSE, token |-> Get(o.data, "access_token")]

Sends(response) == [threw |-> FALSE, response |-> response]

\* app.post('/api/chat'): results[0].generated_text, prompt stripped, trimmed
ChatNormalize(data) ==
    IF Throws(data) THEN Threw(TypeError)
    ELSE LET results == Get(data, "results")
         IN IF ~(Truthy(results) /\ HasLength(results))
            THEN Sends(Envelope(ChatFallback))
            ELSE IF Throws(First(results)) THEN Threw(TypeError)
            ELSE LET text == Get(First(results), "generated_text")
                 IN IF text.t # "string" THEN Threw(TypeError)
                    ELSE LET responseText == Str(Trim(StripPrompt(text.s)))
                         IN Sends(Envelope(IF Truthy(responseText)
                                           THEN responseText
                                           ELSE ChatFallback))

\* aiResponse.data.results?.[0]?.generated_text
AltText(data) ==
    LET results == Get(data, "results")
        first == IF Throws(results) THEN Undef ELSE First(results)
    IN IF Throws(first) THEN Undef ELSE Get(first, "generated_text")

\* app.post('/api/chat-v2'), app.post('/api/chat-v3')
AltNormalize(data) ==
    IF Throws(data) THEN Threw(TypeError)
    ELSE Sends(Envelope(IF Truthy(AltText(data)) THEN AltText(data)
                        ELSE AltFallback))

\* the serverless handlers: res.status(200).json(aiResponse.data)
ServerlessNormalize(data) == Sends(Response(200, data))

Normalize(route, data) ==
    CASE route = "/api/chat" -> ChatNormalize(data)
      [] route \in {"/api/chat-v2", "/api/chat-v3"} -> AltNormalize(data)
      [] OTHER -> ServerlessNormalize(data)

\* what a handler does once its inference call has settled with outcome o
Finish(route, o) ==
    IF o.kind # "ok" THEN Catch(route, AxiosError(o))
    ELSE IF Normalize(route, o.data).threw
    THEN Catch(route, Normalize(route, o.data).error)
    ELSE Normalize(route, o.data).response

\* ------------------------------------------------------------------------
\* Inputs
\* ------------------------------------------------------------------------
\* req.body.message: missing, empty, white space only, a text
Messages == {Undef, Str(<<>>), Str(<<" ", " ">>), Str(<<"hi">>)}

\* process.env.IBM_API_KEY and process.env.PROJECT_ID: unset or set
EnvValues == {Undef, Str(<<"set">>)}

AccessToken == Str(<<"eyJ">>)

Generated(text) == Obj([results |-> Arr(<<Obj([generated_text |-> text])>>)])

EchoedPrompt == <<"Human:", " ", "X", "\n", "\n", "Assistant:", " ", "Y">>

EchoedOneLine == <<"Human:", " ", "X", " ", "Assistant:", " ", "Y", "\n">>

EchoedOnly == <<"Human:", " ", "X", " ", "Assistant:", " ">>

ChoicesZ ==
    Obj([choices |-> Arr(<<Obj([message |-> Obj([content |-> Str(<<"Z">>)])])>>)])

\* the bodies of a 2xx answer of the inference endpoint
InferenceData ==
    { Generated(Str(EchoedPrompt)), Generated(Str(EchoedOneLine)),
      Generated(Str(EchoedOnly)), Generated(Str(<<"Y">>)),
      Generated(Str(<<>>)), Generated(Num(42)),
      Obj([results |-> Arr(<<>>)]), Obj([results |-> Arr(<<Null>>)]),
      Obj(EmptyRec), ChoicesZ, Envelope(Str(<<"Z">>)).body,
      Obj([message |-> Str(<<"M">>)]), Null }

UpstreamError == Obj([errors |-> Arr(<<Str(<<"upstream">>)>>)])

Failures ==
    { [kind |-> "http", status |-> 401, data |-> UpstreamError],
      [kind |-> "http", status |-> 503, data |-> Str(<<>>)],
      [kind |-> "noresponse"], [kind |-> "setup"] }

\* what settles the identity call: a 2xx answer with or without an
\* access_token, a non-2xx answer, no answer, a request that was never sent
IdentityOutcomes ==
    { [kind |-> "ok", data |-> Obj([access_token |-> AccessToken])],
      [kind |-> "ok", data |-> Obj(EmptyRec)] } \cup Failures

InferenceOutcomes ==
    { [kind |-> "ok", data |-> d] : d \in InferenceData } \cup Failures

NoCall == [kind |-> "none"]

\* a call in flight: one its endpoint will answer, and one it never answers
Pending == [kind |-> "pending"]

Silent == [kind |-> "silent"]

InFlight == {Pending, Silent}

\* ------------------------------------------------------------------------
\* State
\* ------------------------------------------------------------------------
VARIABLES
    IBM_API_KEY,    \* process.env.IBM_API_KEY
    PROJECT_ID,     \* process.env.PROJECT_ID
    pc,             \* where each request's handler stands
    route,          \* the handler each request is sent to
    method,         \* req.method
    message,        \* req.body.message
    idCall,         \* the request's identity call: in flight, or its outcome
    infCall,        \* the request's inference call: in flight, or its outcome
    idCalls,        \* identity calls issued for the request
    infCalls,       \* inference calls issued for the request
    bearer,         \* the token of the inference call's Authorization header
    sent            \* the responses sent for the request, in order

\* the page (script.js)
VARIABLES
    userInput,        \* userInput.value
    sendBtnDisabled,  \* sendBtn.disabled
    chatBox,          \* the children of chatBox, in order
    callPc,           \* where each sendMessage call stands
    messageText,      \* messageText of each call
    fetched,          \* what each call's fetch, and response.json(), gave
    scheduled,        \* the addMessage calls each call has handed to setTimeout
    shown             \* whether the call's timer has run

relay == <<IBM_API_KEY, PROJECT_ID, pc, route, method, message, idCall,
           infCall, idCalls, infCalls, bearer, sent>>

page == <<userInput, sendBtnDisabled, chatBox, callPc, messageText, fetched,
          scheduled, shown>>

vars == <<IBM_API_KEY, PROJECT_ID, pc, route, method, message, idCall,
          infCall, idCalls, infCalls, bearer, sent, userInput,
          sendBtnDisabled, chatBox, callPc, messageText, fetched, scheduled,
          shown>>

NoFetch == [kind |-> "none"]

\* the page after DOMContentLoaded
PageLoaded ==
    /\ userInput = <<>>
    /\ sendBtnDisabled = FALSE
    /\ chatBox = <<>>
    /\ callPc = [c \in Calls |-> "unused"]
    /\ messageText = [c \in Calls |-> <<>>]
    /\ fetched = [c \in Calls |-> NoFetch]
    /\ scheduled = [c \in Calls |-> <<>>]
    /\ shown = [c \in Calls |-> FALSE]

env == <<IBM_API_KEY, PROJECT_ID>>

inbound == <<route, method, message>>

Init ==
    /\ IBM_API_KEY \in EnvValues
    /\ PROJECT_ID \in EnvValues
    /\ pc = [r \in Reqs |-> "idle"]
    /\ route = [r \in Reqs |-> "none"]
    /\ method = [r \in Reqs |-> "none"]
    /\ message = [r \in Reqs |-> Undef]
    /\ idCall = [r \in Reqs |-> NoCall]
    /\ infCall = [r \in Reqs |-> NoCall]
    /\ idCalls = [r \in Reqs |-> 0]
    /\ infCalls = [r \in Reqs |-> 0]
    /\ bearer = [r \in Reqs |-> Undef]
    /\ sent = [r \in Reqs |-> <<>>]
    /\ PageLoaded

\* a client sends a request
Arrive(r) ==
    /\ pc[r] = "idle"
    /\ \E rt \in Routes, m \in Methods, msg \in Messages :
        /\ route' = [route EXCEPT ![r] = rt]
        /\ method' = [method EXCEPT ![r] = m]
        /\ message' = [message EXCEPT ![r] = msg]
    /\ pc' = [pc EXCEPT ![r] = "received"]
    /\ UNCHANGED <<page, env, idCall, infCall, idCalls, infCalls, bearer, sent>>

\* the handler's start: it sends what the validation v rejects with and
\* returns, or it issues the identity call and awaits it
Begin(r, v) ==
    /\ sent' = [sent EXCEPT ![r] = @ \o v.sends]
    /\ IF v.proceed
       THEN /\ \E c \in InFlight : idCall' = [idCall EXCEPT ![r] = c]
            /\ idCalls' = [idCalls EXCEPT ![r] = @ + 1]
            /\ pc' = [pc EXCEPT ![r] = "awaitToken"]
       ELSE /\ pc' = [pc EXCEPT ![r] = "done"]
            /\ UNCHANGED <<idCall, idCalls>>
    /\ UNCHANGED <<page, env, inbound, infCall, infCalls, bearer>>

ServerlessHandler(r) ==
    /\ pc[r] = "received"
    /\ route[r] \in ServerlessRoutes
    /\ Begin(r, ServerlessValidate(method[r], message[r]))

ChatHandler(r) ==
    /\ pc[r] = "received"
    /\ route[r] = "/api/chat"
    /\ method[r] = "POST"
    /\ Begin(r, ChatValidate(message[r], IBM_API_KEY, PROJECT_ID))

AltHandler(r) ==
    /\ pc[r] = "received"
    /\ route[r] \in {"/api/chat-v2", "/api/chat-v3"}
    /\ method[r] = "POST"
    /\ Begin(r, AltValidate(message[r], IBM_API_KEY, PROJECT_ID))

\* an Express request that is not a POST: no route handles it
NoRoute(r) ==
    /\ pc[r] = "received"
    /\ route[r] \in ExpressRoutes
    /\ method[r] # "POST"
    /\ sent' = [sent EXCEPT ![r] = Append(@, CorsMiddleware(method[r]))]
    /\ pc' = [pc EXCEPT ![r] = "done"]
    /\ UNCHANGED <<page, env, inbound, idCall, infCall, idCalls, infCalls, bearer>>

\* the identity call has settled with outcome o: the handler issues the
\* inference call with the token, or its catch block answers
AfterToken(r, o) ==
    /\ idCall' = [idCall EXCEPT ![r] = o]
    /\ IF TokenOf(o).threw
       THEN /\ sent' = [sent EXCEPT
                            ![r] = Append(@, Catch(route[r], TokenOf(o).error))]
            /\ pc' = [pc EXCEPT ![r] = "done"]
            /\ UNCHANGED <<infCall, infCalls, bearer>>
       ELSE /\ \E c \in InFlight : infCall' = [infCall EXCEPT ![r] = c]
            /\ infCalls' = [infCalls EXCEPT ![r] = @ + 1]
            /\ bearer' = [bearer EXCEPT ![r] = TokenOf(o).token]
            /\ pc' = [pc EXCEPT ![r] = "awaitInference"]
            /\ UNCHANGED sent
    /\ UNCHANGED <<page, env, inbound, idCalls>>

\* TokenReply with one retry of a failed identity call
TokenReplyRetry(r) ==
    /\ pc[r] = "awaitToken"
    /\ idCall[r] = Pending
    /\ \E o \in IdentityOutcomes :
        IF o.kind # "ok" /\ idCalls[r] < 2
        THEN /\ idCalls' = [idCalls EXCEPT ![r] = @ + 1]
             /\ UNCHANGED <<page, env, inbound, pc, idCall, infCall, infCalls,
                            bearer, sent>>
        ELSE AfterToken(r, o)

\* the identity endpoint answers, or the call fails
TokenReply(r) ==
    /\ pc[r] = "awaitToken"
    /\ idCall[r] = Pending
    /\ \E o \in IdentityOutcomes : AfterToken(r, o)

\* the identity endpoint stays silent and the call's timeout expires
TokenExpires(r) ==
    /\ pc[r] = "awaitToken"
    /\ idCall[r] = Silent
    /\ IdentityTimeout(route[r]) > 0
    /\ AfterToken(r, Silent)

\* AfterInference with a module-level flag that an earlier failure has set
AfterInferenceTripped(r, o) ==
    /\ infCall' = [infCall EXCEPT ![r] = o]
    /\ sent' = [sent EXCEPT
                    ![r] = Append(@,
                        IF \E q \in DOMAIN pc \ {r} :
                                /\ pc[q] = "done"
                                /\ sent[q][Len(sent[q])].status >= 500
                        THEN ServerlessCatch(TypeError)
                        ELSE Finish(route[r], o))]
    /\ pc' = [pc EXCEPT ![r] = "done"]
    /\ UNCHANGED <<page, env, inbound, idCall, idCalls, infCalls, bearer>>

\* the inference call has settled with outcome o: the handler answers
AfterInference(r, o) ==
    /\ infCall' = [infCall EXCEPT ![r] = o]
    /\ sent' = [sent EXCEPT ![r] = Append(@, Finish(route[r], o))]
    /\ pc' = [pc EXCEPT ![r] = "done"]
    /\ UNCHANGED <<page, env, inbound, idCall, idCalls, infCalls, bearer>>

\* the inference endpoint answers, or the call fails
InferenceReply(r) ==
    /\ pc[r] = "awaitInference"
    /\ infCall[r] = Pending
    /\ \E o \in InferenceOutcomes : AfterInference(r, o)

\* the inference endpoint stays silent and the call's timeout expires
InferenceExpires(r) ==
    /\ pc[r] = "awaitInference"
    /\ infCall[r] = Silent
    /\ InferenceTimeout(route[r]) > 0
    /\ AfterInference(r, Silent)

\* the handler steps of request r
Handle(r) ==
    \/ ServerlessHandler(r)
    \/ ChatHandler(r)
    \/ AltHandler(r)
    \/ NoRoute(r)
    \/ TokenReply(r)
    \/ TokenExpires(r)
    \/ InferenceReply(r)
    \/ InferenceExpires(r)

Next == \E r \in Reqs : Arrive(r) \/ Handle(r)

Spec == Init /\ [][Next]_vars

\* the event loop runs every continuation that is ready, an endpoint that
\* answers does answer, and a timeout that is set does expire
FairSpec == Spec /\ \A r \in Reqs : WF_vars(Handle(r))

\* ------------------------------------------------------------------------
\* Concurrent requests: the same handlers, several requests in flight, and
\* a smaller choice of requests and upstream answers
\* ------------------------------------------------------------------------
TwinRoutes == {"/api/chat", "/api/chat-v2", "serverless-esm"}

TwinMethods == {"POST", "GET"}

TwinMessages == {Undef, Str(<<"hi">>)}

TwinIdentityCalls ==
    { NoCall, Pending, Silent,
      [kind |-> "ok", data |-> Obj([access_token |-> AccessToken])],
      [kind |-> "http", status |-> 401, data |-> UpstreamError] }

TwinInferenceCalls ==
    { NoCall, Pending, Silent,
      [kind |-> "ok", data |-> Generated(Str(<<"Y">>))],
      [kind |-> "noresponse"] }

TwinInputs ==
    \A r \in Twins :
        /\ route[r] \in TwinRoutes \cup {"none"}
        /\ method[r] \in TwinMethods \cup {"none"}
        /\ message[r] \in TwinMessages
        /\ idCall[r] \in TwinIdentityCalls
        /\ infCall[r] \in TwinInferenceCalls

TwinInit ==
    /\ IBM_API_KEY \in EnvValues
    /\ PROJECT_ID = Str(<<"set">>)
    /\ pc = [r \in Twins |-> "idle"]
    /\ route = [r \in Twins |-> "none"]
    /\ method = [r \in Twins |-> "none"]
    /\ message = [r \in Twins |-> Undef]
    /\ idCall = [r \in Twins |-> NoCall]
    /\ infCall = [r \in Twins |-> NoCall]
    /\ idCalls = [r \in Twins |-> 0]
    /\ infCalls = [r \in Twins |-> 0]
    /\ bearer = [r \in Twins |-> Undef]
    /\ sent = [r \in Twins |-> <<>>]
    /\ PageLoaded

TwinNext == (\E r \in Twins : Arrive(r) \/ Handle(r)) /\ TwinInputs'

TwinSpec == TwinInit /\ [][TwinNext]_vars

\* ------------------------------------------------------------------------
\* The page: sendMessage, its two awaits, and the timers it sets
\* ------------------------------------------------------------------------
\* what the user types: white space only, and a text with white space around
InputValues == {<<" ", " ">>, <<" ", "hi", " ">>}

\* how a fetch settles: rejected, or resolved with a response
FetchOutcomes ==
    { [kind |-> "rejected"],
      [kind |-> "response", ok |-> TRUE, status |-> 200],
      [kind |-> "response", ok |-> FALSE, status |-> 401],
      [kind |-> "response", ok |-> FALSE, status |-> 500] }

\* what response.json() resolves with
ParsedBodies ==
    { Envelope(Str(<<"Z">>)).body, Envelope(Str(<<>>)).body,
      Envelope(Num(42)).body, Generated(Str(<<"Y">>)),
      Obj([message |-> Str(<<"M">>)]), Obj(EmptyRec),
      Obj([choices |-> Arr(<<Null>>)]), Null }

Entry(text, type) == [text |-> text, type |-> type]

TypingIndicator(c) == [type |-> "typing", call |-> c]

GenericError ==
    Entry(Str(<<"Oops! Something went wrong. Please try again later.">>),
          "error")

NoReplyError ==
    Entry(Str(<<"Sorry, I couldn't generate a response. Please try again.">>),
          "error")

UnexpectedFormat == Str(<<"Sorry, I received an unexpected response format.">>)

\* the fetch leaves the try block by an exception: it was rejected, or the
\* response is not ok
FetchThrowsOnlyOnReject(o) == o.kind = "rejected"

FetchThrows(o) == o.kind = "rejected" \/ ~o.ok

\* aiReply: choices[0].message.content, then results[0].generated_text,
\* then message, then the text about the unexpected format
AiReply(data) ==
    IF Throws(data) THEN Threw(TypeError)
    ELSE LET choices == Get(data, "choices")
             results == Get(data, "results")
         IN IF Truthy(choices) /\ HasLength(choices)
            THEN IF Throws(First(choices)) THEN Threw(TypeError)
                 ELSE IF Truthy(Get(First(choices), "message"))
                 THEN [threw |-> FALSE,
                       aiReply |-> Get(Get(First(choices), "message"), "content")]
                 ELSE [threw |-> FALSE, aiReply |-> UnexpectedFormat]
            ELSE IF /\ Truthy(results)
                    /\ Truthy(First(results))
                    /\ Truthy(Get(First(results), "generated_text"))
            THEN [threw |-> FALSE,
                  aiReply |-> Get(First(results), "generated_text")]
            ELSE IF Truthy(Get(data, "message"))
            THEN [threw |-> FALSE, aiReply |-> Get(data, "message")]
            ELSE [threw |-> FALSE, aiReply |-> UnexpectedFormat]

\* the addMessage call the try block, or the catch block, hands to setTimeout
ReplyEntry(data) ==
    IF AiReply(data).threw THEN GenericError
    ELSE IF Truthy(AiReply(data).aiReply)
    THEN Entry(AiReply(data).aiReply, "bot")
    ELSE NoReplyError

\* removeTypingIndicator
RemoveTypingIndicator(box, c) ==
    SelectSeq(box, LAMBDA e : e # TypingIndicator(c))

\* the user edits the input field
Type ==
    /\ \E v \in InputValues : userInput' = v
    /\ UNCHANGED <<relay, sendBtnDisabled, chatBox, callPc, messageText,
                   fetched, scheduled, shown>>

\* sendMessage up to its await of fetch
SendMessage ==
    IF Trim(userInput) = <<>>
    THEN UNCHANGED vars
    ELSE \E c \in Calls :
            /\ callPc[c] = "unused"
            /\ \A b \in Calls : b < c => callPc[b] # "unused"
            /\ chatBox' = chatBox \o <<Entry(Str(Trim(userInput)), "user"),
                                        TypingIndicator(c)>>
            /\ userInput' = <<>>
            /\ sendBtnDisabled' = TRUE
            /\ callPc' = [callPc EXCEPT ![c] = "fetching"]
            /\ messageText' = [messageText EXCEPT ![c] = Trim(userInput)]
            /\ UNCHANGED <<relay, fetched, scheduled, shown>>

\* a click on the Send button: a disabled button gets none
Click ==
    /\ ~sendBtnDisabled
    /\ SendMessage

Keys == {"Enter", "a"}

\* a keypress in the input field: Enter without Shift sends, whatever the
\* state of the button
KeyPress ==
    \E key \in Keys, shiftKey \in BOOLEAN :
        IF key = "Enter" /\ ~shiftKey THEN SendMessage ELSE UNCHANGED vars

\* the end of sendMessage: the indicator is removed, one addMessage is handed
\* to setTimeout, and the finally block enables the button again
Settle(c, f, entry) ==
    /\ fetched' = [fetched EXCEPT ![c] = f]
    /\ chatBox' = RemoveTypingIndicator(chatBox, c)
    /\ scheduled' = [scheduled EXCEPT ![c] = Append(@, entry)]
    /\ sendBtnDisabled' = FALSE
    /\ callPc' = [callPc EXCEPT ![c] = "done"]
    /\ UNCHANGED <<relay, userInput, messageText, shown>>

\* the fetch settles: the catch block runs, or the call awaits response.json()
FetchSettles(c) ==
    /\ callPc[c] = "fetching"
    /\ \E o \in FetchOutcomes :
        IF FetchThrows(o)
        THEN Settle(c, o, GenericError)
        ELSE /\ fetched' = [fetched EXCEPT ![c] = o]
             /\ callPc' = [callPc EXCEPT ![c] = "parsing"]
             /\ UNCHANGED <<relay, userInput, sendBtnDisabled, chatBox,
                            messageText, scheduled, shown>>

\* response.json() settles: rejected for a body that is not JSON, or
\* resolved with the data the reply is taken from
JsonSettles(c) ==
    /\ callPc[c] = "parsing"
    /\ \/ Settle(c, [fetched[c] EXCEPT !.kind = "unparsable"], GenericError)
       \/ \E data \in ParsedBodies :
            Settle(c, [kind |-> "parsed", ok |-> fetched[c].ok,
                       status |-> fetched[c].status, data |-> data],
                   ReplyEntry(data))

\* the timer of a call runs addMessage: formatMessage throws on a text that
\* is not a string, and nothing is appended
TimerFires(c) ==
    /\ callPc[c] = "done"
    /\ ~shown[c]
    /\ shown' = [shown EXCEPT ![c] = TRUE]
    /\ chatBox' = IF scheduled[c][1].text.t = "string"
                  THEN Append(chatBox, scheduled[c][1])
                  ELSE chatBox
    /\ UNCHANGED <<relay, userInput, sendBtnDisabled, callPc, messageText,
                   fetched, scheduled>>

PageNext ==
    \/ Type
    \/ Click
    \/ KeyPress
    \/ \E c \in Calls : FetchSettles(c) \/ JsonSettles(c) \/ TimerFires(c)

\* the page in front of a configured server
PageInit ==
    /\ Init
    /\ IBM_API_KEY = Str(<<"set">>)
    /\ PROJECT_ID = Str(<<"set">>)

PageSpec == PageInit /\ [][PageNext]_vars

\* ------------------------------------------------------------------------
\* Properties
\* ------------------------------------------------------------------------
Started(r) == pc[r] \notin {"idle", "received"}

Done(r) == pc[r] = "done"

\* the response of a finished request
Reply(r) == sent[r][Len(sent[r])]

\* missing, empty or white space only
Blank(msg) == ~Truthy(msg) \/ (msg.t = "string" /\ Trim(msg.s) = <<>>)

FailureKinds == {"http", "noresponse", "setup", "silent"}

\* body.choices[0].message.content, undefined where a step is missing
ContentOf(body) ==
    Get(Get(First(Get(body, "choices")), "message"), "content")

Canonical(body) ==
    /\ Get(body, "choices").t = "array"
    /\ Get(First(Get(body, "choices")), "index") = Num(0)
    /\ ContentOf(body).t = "string"
    /\ Get(Get(First(Get(body, "choices")), "message"), "role")
         = Str(<<"assistant">>)

\* C1: in every relay variant a response sent with HTTP 200 to a POST has
\* the canonical envelope: choices[0] has index 0 and a message with a
\* string content and the role "assistant"
C1_EnvelopeOn200 ==
    \A r \in Reqs :
        (method[r] = "POST") =>
            \A i \in 1..Len(sent[r]) :
                (sent[r][i].status = 200) => Canonical(sent[r][i].body)

\* C2: a POST whose message is missing, empty or white space only gets
\* HTTP 400 whatever the configuration, and no identity or inference call is
\* made for it
C2_BlankRejected ==
    \A r \in Reqs :
        (Started(r) /\ method[r] = "POST" /\ Blank(message[r])) =>
            /\ idCalls[r] = 0
            /\ infCalls[r] = 0
            /\ Done(r) => Reply(r).status = 400

\* C3: a request with a method other than POST gets HTTP 405 and no
\* identity or inference call is made for it, on the Express server as on
\* the serverless handlers
C3_NonPostIs405 ==
    \A r \in Reqs :
        (Started(r) /\ method[r] # "POST") =>
            /\ idCalls[r] + infCalls[r] = 0
            /\ Done(r) => Reply(r).status = 405

\* C4: when the identity call of a request fails, the request is answered
\* with HTTP 500 and its inference call is never made
C4_TokenFailureIs500 ==
    \A r \in Reqs :
        (Done(r) /\ idCall[r].kind \in FailureKinds) =>
            /\ Reply(r).status = 500
            /\ infCalls[r] = 0

ConfigurationErrors == {ApiKeyMissing, ProjectIdMissing}

\* C5: in every relay variant, a POST with a valid message while the API
\* key or the project id is absent is answered with HTTP 500 and a
\* configuration-error body, and no identity or inference call is made
C5_ConfigCheckedFirst ==
    \A r \in Reqs :
        (/\ Started(r)
         /\ method[r] = "POST"
         /\ ~Blank(message[r])
         /\ ~(Truthy(IBM_API_KEY) /\ Truthy(PROJECT_ID))) =>
            /\ idCalls[r] = 0
            /\ infCalls[r] = 0
            /\ Done(r) => Reply(r) \in ConfigurationErrors

SpecFallback == Str(<<"I couldn't generate a response. Please try again.">>)

\* C6: the normalisation of the Express handlers yields "Y" for
\* {results:[{generated_text:"Human: X\n\nAssistant: Y"}]}, "Z" for
\* {choices:[{message:{content:"Z"}}]}, and exactly the fixed fallback string
\* "I couldn't generate a response. Please try again." for {} and for an
\* empty extracted text
C6_ExtractionOrder ==
    \A r \in Reqs :
        (Done(r) /\ route[r] \in ExpressRoutes /\ infCall[r].kind = "ok") =>
            /\ (infCall[r].data = Generated(Str(EchoedPrompt)))
                    => ContentOf(Reply(r).body) = Str(<<"Y">>)
            /\ (infCall[r].data = ChoicesZ)
                    => ContentOf(Reply(r).body) = Str(<<"Z">>)
            /\ (infCall[r].data \in {Obj(EmptyRec), Generated(Str(<<>>))})
                    => ContentOf(Reply(r).body) = SpecFallback

\* C7: every request is answered exactly once on every path: a finished
\* handler has sent one response, and no request ever has two
C7_AnsweredOnce ==
    \A r \in Reqs :
        /\ Len(sent[r]) <= 1
        /\ Done(r) => Len(sent[r]) = 1

\* C7 witness: a request whose inference call failed has been answered once
C7_Witness ==
    \E r \in Reqs :
        Done(r) /\ infCall[r].kind = "http" /\ Len(sent[r]) = 1

\* the failure kind of an outcome: an expired timeout is "no response"
KindOf(o) == IF o.kind = "silent" THEN "noresponse" ELSE o.kind

\* the response to an inference failure o tells its kind: the upstream's
\* status and body, or 500 with a connectivity hint, or 500 with the setup
\* error; and no failure of another kind gets the same body
Distinguishable(rt, o, reply) ==
    /\ (KindOf(o) = "http") =>
            /\ reply.status = o.status
            /\ Get(reply.body, "details") = o.data
    /\ (KindOf(o) = "noresponse") =>
            /\ reply.status = 500
            /\ Truthy(Get(reply.body, "suggestion"))
    /\ (KindOf(o) = "setup") =>
            /\ reply.status = 500
            /\ Get(reply.body, "details") = AxiosError(o).message
    /\ \A other \in Failures \cup {Silent} :
            (KindOf(other) # KindOf(o)) => Finish(rt, other).body # reply.body

C9_EventuallyAnswered ==
    \A r \in Reqs : (pc[r] \in {"awaitToken", "awaitInference"}) ~> Done(r)

\* C10: the inference call is issued only after the request's identity call
\* succeeded, and its bearer token is the access token that call returned,
\* never a missing one
C10_BearerIsAccessToken ==
    \A r \in Reqs :
        (infCalls[r] > 0) =>
            /\ idCall[r].kind = "ok"
            /\ bearer[r] = Get(idCall[r].data, "access_token")
            /\ bearer[r].t = "string"
            /\ Truthy(bearer[r])

Own(r) == <<route[r], method[r], message[r], idCall[r], infCall[r]>>

C13_OneInFlight ==
    Cardinality({c \in Calls : callPc[c] = "fetching"}) <= 1

\* the request of call c ended without a 2xx result that could be parsed
FailedRequest(f) == f.kind \in {"rejected", "unparsable"} \/ ~f.ok

\* C14: a call of sendMessage sends a request only for an input that is not
\* blank; and when the call ends, however the request ended, its typing
\* indicator is gone, the button is enabled, and the call has scheduled
\* exactly one entry: a bot message only for a 2xx result with a non-empty
\* text, the generic error for a non-2xx result or a failure
C14_SendSettles ==
    [][\A c \in Calls :
        /\ (callPc[c] = "unused" /\ callPc'[c] # "unused") =>
                /\ messageText'[c] # <<>>
                /\ ~Blank(Str(userInput))
        /\ (callPc[c] # "done" /\ callPc'[c] = "done") =>
                /\ \A i \in 1..Len(chatBox') : chatBox'[i] # TypingIndicator(c)
                /\ ~sendBtnDisabled'
                /\ Len(scheduled'[c]) = 1
                /\ (scheduled'[c][1].type = "bot") =>
                        /\ ~FailedRequest(fetched'[c])
                        /\ Truthy(scheduled'[c][1].text)
                /\ FailedRequest(fetched'[c]) =>
                        scheduled'[c] = <<GenericError>>]_vars

\* C14 witness: a call whose request got a non-2xx answer has ended with the
\* generic error scheduled, its indicator removed and the button enabled
C14_Witness ==
    \E c \in Calls :
        /\ callPc[c] = "done"
        /\ fetched[c].kind = "response"
        /\ fetched[c].status = 500
        /\ scheduled[c] = <<GenericError>>
        /\ \A i \in 1..Len(chatBox) : chatBox[i] # TypingIndicator(c)
        /\ ~sendBtnDisabled

====
